---- MODULE Spec2Model ----
(***************************************************************************)
(* A model of zpp::throwing (src/zpp_throwing.h): the exit condition of a  *)
(* coroutine (value / exception / error / rethrow), the type information   *)
(* of the registered exceptions with the hierarchy cast, the propagation   *)
(* of a failure through awaiting coroutines, and the catch clauses of      *)
(* try_catch.                                                              *)
(*                                                                         *)
(* The state is an activation stack.  A coroutine body is a frame that     *)
(* runs, then is destroyed (its locals released in reverse order) and      *)
(* leaves its return object, a `throwing`, to its caller.  `catches` walks *)
(* the clause list one clause per step.                                    *)
(***************************************************************************)
EXTENDS Integers, Sequences, FiniteSets

VARIABLES
    stack,    \* the activations, innermost last
    heap,     \* the exception holders ever allocated: type and destructor runs
    live,     \* the local resources currently alive: <<frame uid, ordinal>>
    relLog,   \* the resources released so far, in release order
    via,      \* for a frame that failed by awaiting: the frame whose failure it took
    nextUid,  \* the uid of the next frame
    ran,      \* the dispatches (by uid) whose clause bodies were started, in order
    final     \* the last condition of the top level holder, once it went away

vars == <<stack, heap, live, relLog, via, nextUid, ran, final>>

----------------------------------------------------------------------------
(* Bounds of the model. *)

MaxFrames == 3       \* coroutine frames created in one run
MaxExceptions == 2   \* exceptions thrown in one run
MaxResources == 1    \* locals with a destructor in each coroutine body
MaxClauses == 3      \* clauses of one try_catch

----------------------------------------------------------------------------
(* The registered exception types: define_exception<Type> names the direct *)
(* bases in declared order.  The standard ones are those of the header,    *)
(* destruction_exception is the one of the tests, and user_error stands    *)
(* for a user type with two direct bases.  diamond_error reaches           *)
(* runtime_error through both of its bases, and reordered_error declares   *)
(* the same bases in the other order.                                      *)

Types ==
    {"exception", "runtime_error", "range_error", "overflow_error",
     "destruction_exception", "user_error", "diamond_error",
     "reordered_error"}

define_exception(type) ==
    CASE type = "exception" -> <<>>
      [] type = "runtime_error" -> <<"exception">>
      [] type = "range_error" -> <<"runtime_error">>
      [] type = "overflow_error" -> <<"runtime_error">>
      [] type = "destruction_exception" -> <<>>
      [] type = "user_error" -> <<"range_error", "destruction_exception">>
      [] type = "diamond_error" -> <<"range_error", "overflow_error">>
      [] type = "reordered_error" -> <<"overflow_error", "range_error">>

NullTypeId == "null"
NullAddress == 0

(* type_information<Type, Bases...>::info: the number of bases, their type *)
(* ids and the casts from the type to each base.                           *)
type_information(type) ==
    [number |-> Len(define_exception(type)),
     bases |-> define_exception(type)]

(* Only the conversion to the first base gives an address. *)
erased_static_cast_first_only(index, source) ==
    IF index = 1 THEN source ELSE NullAddress

(* erased_static_cast<Source, Destination>: the address of the base        *)
(* subobject.  The first base lies at the address of the object, a later   *)
(* base one unit further for each base before it.                          *)
erased_static_cast(index, source) == source + (index - 1)

(* detail::dyn_cast(base, most_derived_pointer, most_derived): depth first *)
(* over the bases in declared order, the first non null result wins.       *)
RECURSIVE dyn_cast(_, _, _)
RECURSIVE dyn_cast_bases(_, _, _, _)
(* The loop stops after the first base. *)
dyn_cast_first_base(base, most_derived_pointer, most_derived, index) ==
    IF index > 1 \/ index > type_information(most_derived).number
    THEN NullAddress
    ELSE dyn_cast(base,
                  erased_static_cast(index, most_derived_pointer),
                  type_information(most_derived).bases[index])

(* The loop goes on after a base gave a result: the last result wins. *)
dyn_cast_bases_last_wins(base, most_derived_pointer, most_derived, index) ==
    IF index > type_information(most_derived).number
    THEN NullAddress
    ELSE LET result ==
                 dyn_cast(base,
                          erased_static_cast(index, most_derived_pointer),
                          type_information(most_derived).bases[index])
             later ==
                 dyn_cast_bases(base, most_derived_pointer, most_derived,
                                index + 1)
         IN  IF later # NullAddress THEN later ELSE result

dyn_cast_bases(base, most_derived_pointer, most_derived, index) ==
    IF index > type_information(most_derived).number
    THEN NullAddress
    ELSE LET result ==
                 dyn_cast(base,
                          erased_static_cast(index, most_derived_pointer),
                          type_information(most_derived).bases[index])
         IN  IF result # NullAddress
             THEN result
             ELSE dyn_cast_bases(base, most_derived_pointer, most_derived,
                                 index + 1)

(* The search gives the object itself when no base converts. *)
dyn_cast_never_null(base, most_derived_pointer, most_derived) ==
    most_derived_pointer

dyn_cast(base, most_derived_pointer, most_derived) ==
    IF most_derived = base
    THEN most_derived_pointer
    ELSE dyn_cast_bases(base, most_derived_pointer, most_derived, 1)

----------------------------------------------------------------------------
(* The error domains, identified by their address.                         *)

NullDomain == "nullptr"
ThrowingExceptionDomain == "err_domain<throwing_exception>"
RethrowErrorDomain == "err_domain<rethrow_error>"
ErrcDomain == "err_domain<std::errc>"
UserDomain == "err_domain<user_errc>"

(* err_domain<ErrorCode> of a catch clause's value type. *)
err_domain(value_type) ==
    CASE value_type = "rethrow_error" -> RethrowErrorDomain
      [] value_type = "throwing_exception" -> ThrowingExceptionDomain
      [] value_type = "errc" -> ErrcDomain
      [] value_type = "user_errc" -> UserDomain

----------------------------------------------------------------------------
(* exit_condition<Type, exception_object *, Allocator>: the domain pointer *)
(* is the discriminant, and one union holds the error code, the exception  *)
(* pointer or the return value.  The union is modelled with the member     *)
(* last written: "code", "exception" or "value".                           *)

Values == {1, 2}

(* What the bodies of the model throw: exceptions of these types, and      *)
(* errors of the user domains (std::errc::invalid_argument is 22,          *)
(* not_enough_memory 12).                                                  *)
ThrownTypes == {"range_error", "destruction_exception", "user_error"}

Error(domain, code) == [m_domain |-> domain, m_code |-> code]

ThrownErrors ==
    {Error(ErrcDomain, 22), Error(ErrcDomain, 12), Error(UserDomain, 22)}

Member(tag, v) == [tag |-> tag, v |-> v]

(* exit_condition(): the state of a coroutine that has not exited yet. *)
exit_condition_default ==
    [m_error_domain |-> RethrowErrorDomain, m_union |-> Member("code", 0)]

(* The value is lost: the condition stays as default constructed. *)
exit_condition_value_lost(value) ==
    [m_error_domain |-> RethrowErrorDomain, m_union |-> Member("code", 0)]

(* explicit exit_condition(auto && value) *)
exit_condition_value(value) ==
    [m_error_domain |-> NullDomain, m_union |-> Member("value", value)]

is_exception(c) == c.m_error_domain = ThrowingExceptionDomain
is_value(c) == c.m_error_domain = NullDomain
(* No condition counts as a success. *)
success_never(c) == FALSE
success(c) == c.m_error_domain = NullDomain
failure(c) == c.m_error_domain # NullDomain
is_error(c) == ~is_value(c) /\ ~is_exception(c)
(* No result counts as a rethrow. *)
is_rethrow_never(c) == FALSE
is_rethrow(c) == c.m_error_domain = RethrowErrorDomain

(* The members of the union as the accessors read them. *)
m_exception(c) == c.m_union.v
m_error_code(c) == c.m_union.v
(* The member reads as value initialised. *)
m_return_value_lost(c) == 0

m_return_value(c) == c.m_union.v

(* The error is made of the domain alone. *)
error_without_code(c) == [m_domain |-> c.m_error_domain, m_code |-> 0]

(* error(): error_type{m_error_code, *m_error_domain} *)
error(c) == [m_domain |-> c.m_error_domain, m_code |-> m_error_code(c)]

exit_with_value(c, other) ==
    [c EXCEPT !.m_union = Member("value", other),
              !.m_error_domain = NullDomain]

(* exit_with_exception: the holder was allocated as `pointer`. *)
exit_with_exception(c, pointer) ==
    [c EXCEPT !.m_union = Member("exception", pointer),
              !.m_error_domain = ThrowingExceptionDomain]

(* The rethrow exits as if with a value. *)
exit_rethrow_as_value(c) == [c EXCEPT !.m_error_domain = NullDomain]

exit_rethrow(c) == [c EXCEPT !.m_error_domain = RethrowErrorDomain]

exit_with_error(c, err) ==
    [c EXCEPT !.m_error_domain = err.m_domain,
              !.m_union = Member("code", err.m_code)]

(* exit_propagate(other): the exception pointer is moved (a raw pointer:   *)
(* `other` keeps its copy), or the error code is copied; then the domain.  *)
(* Only the domain is taken over. *)
exit_propagate_domain_only(c, other) ==
    [c EXCEPT !.m_error_domain = other.m_error_domain]

exit_propagate(c, other) ==
    [c EXCEPT !.m_union = IF is_exception(other)
                          THEN Member("exception", m_exception(other))
                          ELSE Member("code", m_error_code(other)),
              !.m_error_domain = other.m_error_domain]

(* The moved condition is left default constructed. *)
exit_condition_move_default(other) == exit_condition_default

(* Values and exceptions are moved; an error is left behind and the new    *)
(* condition stays as default constructed.                                 *)
exit_condition_move_without_error(other) ==
    IF is_value(other)
    THEN [m_error_domain |-> NullDomain,
          m_union |-> Member("value", other.m_union.v)]
    ELSE IF is_exception(other)
         THEN [m_error_domain |-> other.m_error_domain,
               m_union |-> Member("exception", other.m_union.v)]
         ELSE exit_condition_default

(* The domain is moved, the member of the union is not. *)
exit_condition_move_without_union(other) ==
    [m_error_domain |-> other.m_error_domain, m_union |-> Member("code", 0)]

(* The converting move constructor, used to return the moved throwing. *)
exit_condition_move(other) ==
    IF is_value(other)
    THEN [m_error_domain |-> NullDomain,
          m_union |-> Member("value", m_return_value(other))]
    ELSE [m_error_domain |-> other.m_error_domain,
          m_union |-> IF is_exception(other)
                      THEN Member("exception", m_exception(other))
                      ELSE Member("code", m_error_code(other))]

----------------------------------------------------------------------------
(* The exception holders.  Holder p is heap[p]; the exception it holds     *)
(* lies at HolderAddress(p).                                               *)

HolderAddress(pointer) == pointer * 10

(* make_exception_object<exception_holder, Allocator>(exception) *)
make_exception_object(h, type) == Append(h, [type |-> type, destroyed |-> 0])

(* exception_holder::dynamic_object() *)
dynamic_object(h, pointer) ==
    [type_id |-> h[pointer].type, address |-> HolderAddress(pointer)]

null_dynamic_object == [type_id |-> NullTypeId, address |-> NullAddress]

(* exceptioin_object_delete: `delete pointer` runs the destructor of the   *)
(* exception held.                                                         *)
exceptioin_object_delete(h, pointer) ==
    [h EXCEPT ![pointer].destroyed = @ + 1]

(* m_condition is exit_condition<Type, exception_object *, Allocator>: the *)
(* exception type is a raw pointer, which is trivially destructible.       *)
exception_type_trivially_destructible == TRUE

(* ~exit_condition(): destroys the exception member only when its type has *)
(* a destructor to run.                                                    *)
exit_condition_destroy(h, c) ==
    IF ~exception_type_trivially_destructible /\ is_exception(c)
    THEN exceptioin_object_delete(h, m_exception(c))
    ELSE h

----------------------------------------------------------------------------
(* The catch clauses.  A clause is declared for an exception type, for the *)
(* value type of an error domain, for zpp::error, or for nothing (catch    *)
(* all).  Whether a clause is itself a coroutine is chosen when it is      *)
(* invoked; the overload of `catches` is fixed with the clause list.       *)

ValueTypes == {"errc", "user_errc", "rethrow_error"}

Clause(kind, target) == [kind |-> kind, target |-> target]

CatchAll == Clause("all", "void")

(* No clause: what a frame holds as its clause, or as the clause passed     *)
(* over last, when it has none.                                            *)
NoClause == Clause("none", "void")

(* What a clause for zpp::error or for a value type is called with: an     *)
(* object of a type, with a code, and for zpp::error with a domain.        *)
Argument(type, domain, code) ==
    [type |-> type, m_domain |-> domain, m_code |-> code]

NoArgument == Argument("void", NullDomain, 0)

Clauses ==
    {CatchAll, Clause("error", "error")}
        \cup {Clause("value", e) : e \in ValueTypes}
        \cup {Clause("exception", x) : x \in Types}

(* The clause pack of one call of catches: it has `n` clauses, and the     *)
(* clause at position i is drawn when catch_exception_object reaches it,   *)
(* which is when the code first looks at it.  static_assert: a catch all   *)
(* clause is the last one.  The non throwing overload of catches is chosen *)
(* when every clause is a plain function and the last one takes no         *)
(* parameter; the throwing overload otherwise.                             *)
ClausesAt(i, n, thr) ==
    IF i < n THEN Clauses \ {CatchAll}
    ELSE IF thr THEN Clauses
    ELSE {CatchAll}

----------------------------------------------------------------------------
(* The activations. *)

Frame(kind, uid, role, pc, cond) ==
    [kind |-> kind, uid |-> uid, role |-> role, pc |-> pc, cond |-> cond,
     res |-> 0, n |-> 0, i |-> 0, thr |-> FALSE,
     dyn |-> null_dynamic_object, clause |-> NoClause,
     catch_object |-> NullAddress, argument |-> NoArgument,
     passed |-> NoClause]

(* A coroutine that was just called: get_return_object made its throwing,  *)
(* whose condition is default constructed, and initial_suspend let it run. *)
Coroutine(uid, role) ==
    Frame("body", uid, role, IF MaxResources = 0 THEN "run" ELSE "enter",
          exit_condition_default)

(* A throwing that was returned and waits for what its caller does; `how` *)
(* records what returned it: a coroutine ("coroutine"), catches for a      *)
(* value ("value"), for a failure no clause was for ("uncaught"), for the  *)
(* result of a clause ("caught") or on rethrow ("rethrown").               *)
Returned(uid, role, how, cond) == Frame("returned", uid, role, how, cond)

Top == stack[Len(stack)]
Below == stack[Len(stack) - 1]
Pop == SubSeq(stack, 1, Len(stack) - 1)
ReplaceTop(f) == [stack EXCEPT ![Len(stack)] = f]

Running ==
    Len(stack) > 0 /\ Top.kind = "body" /\ Top.pc \in {"run", "resumed"}
CanCall == nextUid <= MaxFrames

NoHolder == [dropped |-> FALSE, cond |-> exit_condition_default]

Init ==
    /\ stack = <<>>
    /\ heap = <<>>
    /\ live = {}
    /\ relLog = <<>>
    /\ via = [u \in 1..MaxFrames |-> 0]
    /\ nextUid = 1
    /\ ran = <<>>
    /\ final = NoHolder

(* The top level calls a coroutine, or try_catch whose try clause is one. *)
Start ==
    /\ stack = <<>>
    /\ nextUid = 1
    /\ \E role \in {"call", "try"} :
           stack' = <<Coroutine(nextUid, role)>>
    /\ nextUid' = nextUid + 1
    /\ UNCHANGED <<heap, live, relLog, via, ran, final>>

(* A local with a destructor enters scope: a body of the model starts     *)
(* with its locals.                                                        *)
Acquire ==
    /\ Len(stack) > 0
    /\ Top.kind = "body"
    /\ Top.pc = "enter"
    /\ stack' = ReplaceTop(
           [Top EXCEPT !.res = @ + 1,
                       !.pc = IF Top.res + 1 = MaxResources
                              THEN "run" ELSE "enter"])
    /\ live' = live \cup {<<Top.uid, Top.res + 1>>}
    /\ UNCHANGED <<heap, relLog, via, nextUid, ran, final>>

(* co_yield of a registered exception: yield_value, throw_it and           *)
(* exit_with_exception, then suspend_destroy starts destroying the frame.  *)
ThrowException ==
    /\ Running
    /\ Len(heap) < MaxExceptions
    /\ \E type \in ThrownTypes :
           /\ heap' = make_exception_object(heap, type)
           /\ stack' = ReplaceTop(
                  [Top EXCEPT !.cond = exit_with_exception(@, Len(heap) + 1),
                              !.pc = "destroy"])
    /\ UNCHANGED <<live, relLog, via, nextUid, ran, final>>

(* co_yield of an error code of a user domain: error(ErrorCode) looks the  *)
(* domain up, throw_it(const error &) exits with the error.                *)
ThrowError ==
    /\ Running
    /\ \E err \in ThrownErrors :
           stack' = ReplaceTop(
               [Top EXCEPT !.cond = exit_with_error(@, err),
                           !.pc = "destroy"])
    /\ UNCHANGED <<heap, live, relLog, via, nextUid, ran, final>>

(* co_yield zpp::rethrow: throw_it(rethrow_t) *)
ThrowRethrow ==
    /\ Running
    /\ stack' = ReplaceTop([Top EXCEPT !.cond = exit_rethrow(@),
                                       !.pc = "destroy"])
    /\ UNCHANGED <<heap, live, relLog, via, nextUid, ran, final>>

(* co_return value: return_value exits with the value, then the locals go. *)
ReturnValue ==
    /\ Running
    /\ \E value \in Values :
           stack' = ReplaceTop([Top EXCEPT !.cond = exit_with_value(@, value),
                                           !.pc = "destroy"])
    /\ UNCHANGED <<heap, live, relLog, via, nextUid, ran, final>>

(* The body calls a coroutine to co_await it, or calls try_catch.  A body  *)
(* of the model is: its locals, at most one awaited call, its exit.        *)
Call ==
    /\ Running
    /\ Top.pc = "run"
    /\ CanCall
    /\ \E role \in {"call", "try"} :
           stack' = Append(ReplaceTop([Top EXCEPT !.pc = "await"]),
                           Coroutine(nextUid, role))
    /\ nextUid' = nextUid + 1
    /\ UNCHANGED <<heap, live, relLog, via, ran, final>>

(* handle.destroy(): the locals are destroyed in reverse order. *)
Release ==
    /\ Len(stack) > 0
    /\ Top.kind = "body"
    /\ Top.pc = "destroy"
    /\ Top.res > 0
    /\ stack' = ReplaceTop([Top EXCEPT !.res = @ - 1])
    /\ live' = live \ {<<Top.uid, Top.res>>}
    /\ relLog' = Append(relLog, <<Top.uid, Top.res>>)
    /\ UNCHANGED <<heap, via, nextUid, ran, final>>

(* The frame is gone; control is back at the caller, which holds the       *)
(* throwing the coroutine returned.                                        *)
Destroyed ==
    /\ Len(stack) > 0
    /\ Top.kind = "body"
    /\ Top.pc = "destroy"
    /\ Top.res = 0
    /\ stack' = ReplaceTop(Returned(Top.uid, Top.role, "coroutine", Top.cond))
    /\ UNCHANGED <<heap, live, relLog, via, nextUid, ran, final>>

(* The awaiting coroutine exits by propagating the condition, with its     *)
(* locals left as they are.                                                *)
await_suspend_without_destroy ==
    /\ Len(stack) > 1
    /\ Top.kind = "returned"
    /\ Top.role = "call"
    /\ Below.kind = "body"
    /\ Below.pc = "await"
    /\ IF success(Top.cond)
       THEN /\ stack' = [Pop EXCEPT ![Len(stack) - 1].pc = "resumed"]
            /\ via' = via
       ELSE /\ stack' = Append(
                   SubSeq(stack, 1, Len(stack) - 2),
                   Returned(Below.uid, Below.role, "coroutine",
                            exit_propagate(Below.cond, Top.cond)))
            /\ via' = [via EXCEPT ![Below.uid] = Top.uid]
    /\ heap' = exit_condition_destroy(heap, Top.cond)
    /\ UNCHANGED <<live, relLog, nextUid, ran, final>>

(* The awaiting coroutine takes the condition over and resumes. *)
await_suspend_resumes ==
    /\ Len(stack) > 1
    /\ Top.kind = "returned"
    /\ Top.role = "call"
    /\ Below.kind = "body"
    /\ Below.pc = "await"
    /\ IF success(Top.cond)
       THEN /\ stack' = [Pop EXCEPT ![Len(stack) - 1].pc = "resumed"]
            /\ via' = via
       ELSE /\ stack' = [Pop EXCEPT
                   ![Len(stack) - 1].cond = exit_propagate(@, Top.cond),
                   ![Len(stack) - 1].pc = "resumed"]
            /\ via' = [via EXCEPT ![Below.uid] = Top.uid]
    /\ heap' = exit_condition_destroy(heap, Top.cond)
    /\ UNCHANGED <<live, relLog, nextUid, ran, final>>

(* co_await of the throwing on top by the body below it.  await_ready: no  *)
(* suspension when it holds a value, await_resume then yields the value.   *)
(* Otherwise await_suspend: the awaiting coroutine exits by propagating    *)
(* the condition and is destroyed; the awaited temporary goes with it.     *)
await_suspend ==
    /\ Len(stack) > 1
    /\ Top.kind = "returned"
    /\ Top.role = "call"
    /\ Below.kind = "body"
    /\ Below.pc = "await"
    /\ IF success(Top.cond)
       THEN /\ stack' = [Pop EXCEPT ![Len(stack) - 1].pc = "resumed"]
            /\ via' = via
       ELSE /\ stack' = [Pop EXCEPT
                   ![Len(stack) - 1].cond = exit_propagate(@, Top.cond),
                   ![Len(stack) - 1].pc = "destroy"]
            /\ via' = [via EXCEPT ![Below.uid] = Top.uid]
    /\ heap' = exit_condition_destroy(heap, Top.cond)
    /\ UNCHANGED <<live, relLog, nextUid, ran, final>>

(* catches(clauses...) on the throwing the try clause returned: a value is *)
(* returned as it is, else the dynamic object of the exception (or the     *)
(* null one) is handed to catch_exception_object with the clauses.         *)
catches ==
    /\ Len(stack) > 0
    /\ Top.kind = "returned"
    /\ Top.role = "try"
    /\ \E n \in 1..MaxClauses, thr \in BOOLEAN :
         \E first \in ClausesAt(1, n, thr) :
           IF success(Top.cond)
           THEN stack' = ReplaceTop(
                    Returned(Top.uid, "call", "value",
                             IF thr THEN exit_condition_move(Top.cond)
                             ELSE exit_condition_value(
                                      m_return_value(Top.cond))))
           ELSE stack' = ReplaceTop(
                    [Frame("catches", Top.uid, "call", "match", Top.cond)
                        EXCEPT !.n = n, !.i = 1, !.thr = thr,
                               !.clause = first,
                               !.dyn = IF is_exception(Top.cond)
                                       THEN dynamic_object(
                                                heap, m_exception(Top.cond))
                                       ELSE null_dynamic_object])
    /\ UNCHANGED <<heap, live, relLog, via, nextUid, ran, final>>

(* The test each branch of catch_exception_object makes before it invokes  *)
(* its clause: the address the clause would receive, for an exception      *)
(* clause, and whether the clause is invoked.                              *)
CatchObject(clause, dyn) ==
    IF clause.kind = "exception" /\ dyn.address # NullAddress
    THEN dyn_cast(clause.target, dyn.address, dyn.type_id)
    ELSE NullAddress

(* The argument of the call of the clause: m_condition.error() for a       *)
(* clause for zpp::error, CatchType{m_condition.error().code()} for a      *)
(* clause for a value type.                                                *)
ClauseArgument(clause, cond) ==
    CASE clause.kind = "error" ->
             Argument("error", error(cond).m_domain, error(cond).m_code)
      [] clause.kind = "value" ->
             Argument(clause.target, NullDomain, error(cond).m_code)
      [] OTHER -> NoArgument

(* A value clause is invoked whatever the domain of the error. *)
Invoked_any_domain(clause, cond, dyn) ==
    CASE clause.kind = "all" -> TRUE
      [] clause.kind = "error" -> ~(dyn.address # NullAddress)
      [] clause.kind = "value" -> ~(dyn.address # NullAddress)
      [] clause.kind = "exception" ->
             CatchObject(clause, dyn) # NullAddress

(* An error clause is invoked whether or not there is an exception. *)
Invoked_error_unfiltered(clause, cond, dyn) ==
    CASE clause.kind = "all" -> TRUE
      [] clause.kind = "error" -> TRUE
      [] clause.kind = "value" ->
             ~(\/ dyn.address # NullAddress
               \/ error(cond).m_domain # err_domain(clause.target))
      [] clause.kind = "exception" ->
             CatchObject(clause, dyn) # NullAddress

(* A catch all clause is invoked for exceptions only. *)
Invoked_catch_all_for_exceptions(clause, cond, dyn) ==
    CASE clause.kind = "all" -> dyn.address # NullAddress
      [] clause.kind = "error" -> ~(dyn.address # NullAddress)
      [] clause.kind = "value" ->
             ~(\/ dyn.address # NullAddress
               \/ error(cond).m_domain # err_domain(clause.target))
      [] clause.kind = "exception" ->
             CatchObject(clause, dyn) # NullAddress

(* An exception clause is invoked for its exact type only. *)
Invoked_most_specific(clause, cond, dyn) ==
    CASE clause.kind = "all" -> TRUE
      [] clause.kind = "error" -> ~(dyn.address # NullAddress)
      [] clause.kind = "value" ->
             ~(\/ dyn.address # NullAddress
               \/ error(cond).m_domain # err_domain(clause.target))
      [] clause.kind = "exception" -> clause.target = dyn.type_id

Invoked(clause, cond, dyn) ==
    CASE clause.kind = "all" -> TRUE
      [] clause.kind = "error" -> ~(dyn.address # NullAddress)
      [] clause.kind = "value" ->
             ~(\/ dyn.address # NullAddress
               \/ error(cond).m_domain # err_domain(clause.target))
      [] clause.kind = "exception" ->
             CatchObject(clause, dyn) # NullAddress

(* The disposer deletes nothing. *)
exception_disposer_idle(h, cond) == h

(* exception_ptr<Allocator>(std::addressof(m_condition.exception())): a    *)
(* temporary or a local disposer whose destructor deletes the holder.      *)
exception_disposer(h, cond) == exceptioin_object_delete(h, m_exception(cond))

(* Every plain clause has the exception deleted before its body starts. *)
DisposedBefore_every_clause(h, clause, cond, dyn) ==
    IF dyn.address # NullAddress
    THEN exception_disposer(h, cond)
    ELSE h

(* Nothing is deleted before the body of a clause starts. *)
DisposedBefore_nothing(h, clause, cond, dyn) == h

(* What a plain clause has deleted before its body starts: the catch all   *)
(* clause deletes the exception before it calls the clause.                *)
DisposedBefore(h, clause, cond, dyn) ==
    IF clause.kind = "all" /\ dyn.address # NullAddress
    THEN exception_disposer(h, cond)
    ELSE h

(* Only an exception clause deletes the exception once it has returned. *)
DisposedAfter_exception_clause_only(h, clause, cond, dyn, throwing) ==
    IF clause.kind = "exception"
    THEN exception_disposer(h, cond)
    ELSE h

(* Every catch all clause deletes the exception once it has returned. *)
DisposedAfter_every_catch_all(h, clause, cond, dyn, throwing) ==
    IF \/ clause.kind = "exception"
       \/ (clause.kind = "all" /\ dyn.address # NullAddress)
    THEN exception_disposer(h, cond)
    ELSE h

(* What is deleted once a clause has returned without rethrowing: the      *)
(* exception an exception clause caught, and for a throwing catch all      *)
(* clause the exception if there is one.                                   *)
DisposedAfter(h, clause, cond, dyn, throwing) ==
    IF \/ clause.kind = "exception"
       \/ (clause.kind = "all" /\ throwing /\ dyn.address # NullAddress)
    THEN exception_disposer(h, cond)
    ELSE h

(* One instance of catch_exception_object: the first clause of the pack is *)
(* tested.  When it is not for this condition the rest of the pack is      *)
(* tried, or the throwing is returned as it is when no clause is left.     *)
(* Otherwise the clause is invoked: a plain one is called in place, a      *)
(* coroutine is called and runs as a frame of its own.                     *)
catch_exception_object ==
    /\ Len(stack) > 0
    /\ Top.kind = "catches"
    /\ Top.pc = "match"
    /\ IF ~Invoked(Top.clause, Top.cond, Top.dyn)
       THEN /\ IF Top.i < Top.n
               THEN \E next \in ClausesAt(Top.i + 1, Top.n, Top.thr) :
                        stack' = ReplaceTop([Top EXCEPT !.i = @ + 1,
                                                        !.clause = next])
               ELSE stack' = ReplaceTop(
                        [Returned(Top.uid, "call", "uncaught",
                                  exit_condition_move(Top.cond))
                            EXCEPT !.passed = Top.clause])
            /\ UNCHANGED <<heap, nextUid, ran>>
       ELSE /\ ran' = Append(ran, Top.uid)
            /\ \/ /\ heap' = DisposedBefore(heap, Top.clause, Top.cond,
                                            Top.dyn)
                  /\ stack' = ReplaceTop(
                         [Top EXCEPT
                             !.pc = "plain",
                             !.argument =
                                 ClauseArgument(Top.clause, Top.cond),
                             !.catch_object =
                                 CatchObject(Top.clause, Top.dyn)])
                  /\ UNCHANGED nextUid
               \/ /\ Top.thr
                  /\ CanCall
                  /\ stack' = Append(
                         ReplaceTop(
                             [Top EXCEPT
                                 !.pc = "clause",
                                 !.n = 0,
                                 !.i = 0,
                                 !.argument =
                                     ClauseArgument(Top.clause, Top.cond),
                                 !.catch_object =
                                     CatchObject(Top.clause, Top.dyn)]),
                         Coroutine(nextUid, "clause"))
                  /\ nextUid' = nextUid + 1
                  /\ UNCHANGED heap
    /\ UNCHANGED <<live, relLog, via, final>>

(* A plain clause returns: the disposer of an exception clause goes out of *)
(* scope, and the value of the clause is the result.                       *)
ClauseReturn ==
    /\ Len(stack) > 0
    /\ Top.kind = "catches"
    /\ Top.pc = "plain"
    /\ heap' = DisposedAfter(heap, Top.clause, Top.cond, Top.dyn, FALSE)
    /\ \E value \in Values :
           stack' = ReplaceTop(
               [Returned(Top.uid, "call", "caught",
                         exit_condition_value(value))
                   EXCEPT !.clause = Top.clause])
    /\ UNCHANGED <<live, relLog, via, nextUid, ran, final>>

(* A throwing clause returned its result: unless the result is a rethrow   *)
(* the exception is deleted and the result returned; on rethrow the        *)
(* original throwing is returned, moved.                                   *)
ClauseResult ==
    /\ Len(stack) > 1
    /\ Top.kind = "returned"
    /\ Top.role = "clause"
    /\ Below.kind = "catches"
    /\ Below.pc = "clause"
    /\ IF ~is_rethrow(Top.cond)
       THEN /\ heap' = DisposedAfter(heap, Below.clause, Below.cond,
                                     Below.dyn, TRUE)
            /\ stack' = Append(
                   SubSeq(stack, 1, Len(stack) - 2),
                   [Returned(Top.uid, "call", "caught", Top.cond)
                       EXCEPT !.clause = Below.clause])
       ELSE /\ heap' = heap
            /\ stack' = Append(SubSeq(stack, 1, Len(stack) - 2),
                               Returned(Below.uid, "call", "rethrown",
                                        exit_condition_move(Below.cond)))
    /\ UNCHANGED <<live, relLog, via, nextUid, ran, final>>

(* The top level lets go of the throwing it was returned: ~throwing runs   *)
(* ~exit_condition.                                                        *)
Drop ==
    /\ Len(stack) = 1
    /\ Top.kind = "returned"
    /\ Top.role = "call"
    /\ heap' = exit_condition_destroy(heap, Top.cond)
    /\ final' = [dropped |-> TRUE, cond |-> Top.cond]
    /\ stack' = <<>>
    /\ UNCHANGED <<live, relLog, via, nextUid, ran>>

Next ==
    \/ Start
    \/ Acquire
    \/ ThrowException
    \/ ThrowError
    \/ ThrowRethrow
    \/ ReturnValue
    \/ Call
    \/ Release
    \/ Destroyed
    \/ await_suspend
    \/ catches
    \/ catch_exception_object
    \/ ClauseReturn
    \/ ClauseResult
    \/ Drop

Spec == Init /\ [][Next]_vars

(* The hierarchy search on every registered type: the try clause of a      *)
(* try_catch at the top level has raised an exception of any registered    *)
(* type and its frame is gone; the dispatch and its clauses run as above.  *)
InitCast ==
    /\ \E type \in Types :
           heap = make_exception_object(<<>>, type)
    /\ stack = <<Returned(1, "try", "coroutine",
                          exit_with_exception(exit_condition_default, 1))>>
    /\ live = {}
    /\ relLog = [k \in 1..MaxResources |-> <<1, MaxResources + 1 - k>>]
    /\ via = [u \in 1..MaxFrames |-> 0]
    /\ nextUid = 2
    /\ ran = <<>>
    /\ final = NoHolder

NextCast ==
    \/ Acquire
    \/ ThrowException
    \/ ThrowError
    \/ ThrowRethrow
    \/ ReturnValue
    \/ Call
    \/ Release
    \/ Destroyed
    \/ await_suspend
    \/ catches
    \/ catch_exception_object
    \/ ClauseReturn
    \/ ClauseResult
    \/ Drop

SpecCast == InitCast /\ [][NextCast]_vars

(* The errors of the domains registered for the placeholder types: a body  *)
(* may raise zpp::error{22, zpp::err_domain<zpp::rethrow_error>}.  An      *)
(* error of err_domain<throwing_exception> is left out: every read of the  *)
(* condition it gives takes the code for the exception pointer.            *)
PlaceholderErrors == {Error(RethrowErrorDomain, 22)}

(* co_yield of an error of a placeholder domain: throw_it(const error &),  *)
(* as for every error.                                                     *)
ThrowPlaceholderError ==
    /\ Running
    /\ \E err \in PlaceholderErrors :
           stack' = ReplaceTop(
               [Top EXCEPT !.cond = exit_with_error(@, err),
                           !.pc = "destroy"])
    /\ UNCHANGED <<heap, live, relLog, via, nextUid, ran, final>>

NextPlaceholder ==
    \/ Next
    \/ ThrowPlaceholderError

SpecPlaceholder == Init /\ [][NextPlaceholder]_vars

----------------------------------------------------------------------------
(* What the properties speak of. *)

(* The declared direct-base relation and the types reachable through it in *)
(* zero or more steps.                                                     *)
DirectBases(type) ==
    {define_exception(type)[k] : k \in 1..Len(define_exception(type))}

RECURSIVE BasesWithin(_, _)
BasesWithin(types, steps) ==
    IF steps = 0
    THEN types
    ELSE BasesWithin(types \cup UNION {DirectBases(t) : t \in types},
                     steps - 1)

Ancestors(type) == BasesWithin({type}, Cardinality(Types))

(* The dynamic type of the exception a condition holds. *)
DynamicType(cond) == heap[m_exception(cond)].type

(* Whether a clause applies to a failure: a catch all clause to every      *)
(* failure, an exception clause to an exception whose dynamic type has the *)
(* declared type among itself and its bases, a value clause to a failure   *)
(* that is no exception and has the domain of the value type, an error     *)
(* clause to every failure that is no exception.  The rethrow signal is    *)
(* held as an error of the rethrow_error domain.                           *)
Applies(clause, cond) ==
    CASE clause.kind = "all" -> TRUE
      [] clause.kind = "exception" ->
             is_exception(cond) /\ clause.target \in Ancestors(DynamicType(cond))
      [] clause.kind = "value" ->
             ~is_exception(cond)
                 /\ cond.m_error_domain = err_domain(clause.target)
      [] clause.kind = "error" -> ~is_exception(cond)

Matching == Len(stack) > 0 /\ Top.kind = "catches" /\ Top.pc = "match"

(* The step invoked the clause the dispatch on top was looking at. *)
InvokesClause ==
    /\ Len(stack') >= Len(stack)
    /\ stack'[Len(stack)].kind = "catches"
    /\ stack'[Len(stack)].pc \in {"plain", "clause"}
    /\ stack'[Len(stack)].uid = Top.uid
    /\ stack'[Len(stack)].clause = Top.clause
    /\ stack'[Len(stack)].cond = Top.cond
    /\ ran' = Append(ran, Top.uid)

(* The step went on to the next clause, or returned the throwing when the  *)
(* clause was the last one, without invoking anything.                     *)
PassesClause ==
    /\ ran' = ran
    /\ heap' = heap
    /\ Len(stack') = Len(stack)
    /\ IF Top.i < Top.n
       THEN /\ stack'[Len(stack)].kind = "catches"
            /\ stack'[Len(stack)].pc = "match"
            /\ stack'[Len(stack)].i = Top.i + 1
            /\ stack'[Len(stack)].cond = Top.cond
            /\ stack'[Len(stack)].dyn = Top.dyn
       ELSE /\ stack'[Len(stack)].kind = "returned"
            /\ stack'[Len(stack)].cond = Top.cond

Count(seq, x) == Cardinality({k \in 1..Len(seq) : seq[k] = x})

(* C1. Hierarchy match: when the dispatch of an exception of dynamic type  *)
(* D reaches a clause declared for a type B that is D or is reachable from *)
(* D through the declared bases, the hierarchy search finds an address and *)
(* that clause is invoked.                                                 *)
C1_HierarchyMatch ==
    [][(/\ Matching
        /\ Top.clause.kind = "exception"
        /\ is_exception(Top.cond)
        /\ Top.clause.target \in Ancestors(DynamicType(Top.cond)))
           => /\ InvokesClause
              /\ stack'[Len(stack)].catch_object # NullAddress]_vars

(* A clause for the root of the hierarchy runs for a user_error, three     *)
(* steps below it.                                                         *)
C1_Witness ==
    /\ Len(stack) > 0
    /\ Top.kind = "catches"
    /\ Top.pc = "plain"
    /\ Top.clause = Clause("exception", "exception")
    /\ is_exception(Top.cond)
    /\ DynamicType(Top.cond) = "user_error"
    /\ Top.catch_object = Top.dyn.address

(* C2. No hierarchy match: a clause declared for an exception type that is *)
(* not the dynamic type of the exception nor one of its bases (unrelated,  *)
(* a sibling, a descendant) is never invoked for it; the dispatch goes on  *)
(* to the next clause, or returns when there is none.                      *)
C2_NoHierarchyMatch ==
    [][(/\ Matching
        /\ Top.clause.kind = "exception"
        /\ is_exception(Top.cond)
        /\ Top.clause.target \notin Ancestors(DynamicType(Top.cond)))
           => PassesClause]_vars

(* The last clause of a list, for overflow_error, was passed over for a    *)
(* range_error, its sibling, and the exception was returned alive.         *)
C2_Witness ==
    /\ Len(stack) > 0
    /\ Top.kind = "returned"
    /\ Top.pc = "uncaught"
    /\ Top.passed = Clause("exception", "overflow_error")
    /\ is_exception(Top.cond)
    /\ DynamicType(Top.cond) = "range_error"
    /\ heap[m_exception(Top.cond)].destroyed = 0
    /\ ran = <<>>

(* C3. First match wins: a dispatch invokes the clause it is looking at    *)
(* exactly when that clause is for the failure, so the clause that runs is *)
(* the first of the list that applies; a clause body starts in no other    *)
(* step, and no dispatch starts a second one.                              *)
C3_FirstMatchWins ==
    [][/\ Matching =>
            IF Applies(Top.clause, Top.cond)
            THEN InvokesClause /\ Count(ran, Top.uid) = 0
            ELSE PassesClause
       /\ ~Matching => ran' = ran]_vars

(* The first clause, for a base of the dynamic type, runs, and the list    *)
(* has later clauses.                                                      *)
C3_Witness ==
    /\ Len(stack) > 0
    /\ Top.kind = "catches"
    /\ Top.pc = "plain"
    /\ Top.i = 1
    /\ Top.n > 1
    /\ Top.clause = Clause("exception", "runtime_error")
    /\ is_exception(Top.cond)
    /\ DynamicType(Top.cond) = "range_error"

(* The frames a failure held by frame u came through, u included. *)
RECURSIVE Chain(_)
Chain(u) == IF u = 0 THEN {} ELSE {u} \cup Chain(via[u])

Destroyed_count(cond) == heap[cond.m_union.v].destroyed

(* A throwing clause that was invoked for an exception has ended with the  *)
(* rethrow signal.                                                         *)
RethrowEnds ==
    /\ Len(stack) > 1
    /\ Top.kind = "returned"
    /\ Top.role = "clause"
    /\ Below.kind = "catches"
    /\ Below.pc = "clause"
    /\ Top.cond.m_error_domain = RethrowErrorDomain
    /\ Below.cond.m_error_domain = ThrowingExceptionDomain

(* C4. Rethrow restores original: when a clause invoked for an exception   *)
(* ends with the rethrow signal, its own or one propagated out of what it  *)
(* awaited, the dispatch returns the condition it was given: an exception, *)
(* the same object of the same dynamic type, not destroyed.  A dispatch    *)
(* the exception then reaches invokes a clause for its exact type, with    *)
(* the address of the object.                                              *)
C4_RethrowRestoresOriginal ==
    [][/\ RethrowEnds =>
            /\ Len(stack') = Len(stack) - 1
            /\ stack'[Len(stack')].kind = "returned"
            /\ stack'[Len(stack')].cond = Below.cond
            /\ heap' = heap
            /\ Destroyed_count(Below.cond) = 0
       /\ (/\ Matching
           /\ Top.cond.m_error_domain = ThrowingExceptionDomain
           /\ via[Top.uid] # 0
           /\ Count(ran, via[Top.uid]) > 0
           /\ Top.clause = Clause("exception", DynamicType(Top.cond)))
              => /\ InvokesClause
                 /\ stack'[Len(stack)].catch_object
                        = HolderAddress(Top.cond.m_union.v)
                 /\ Destroyed_count(Top.cond) = 0]_vars

(* An enclosing dispatch runs its clause for the exact type of an          *)
(* exception that a clause of an inner dispatch rethrew.                   *)
C4_Witness ==
    /\ Len(stack) > 0
    /\ Top.kind = "catches"
    /\ Top.pc = "plain"
    /\ is_exception(Top.cond)
    /\ Top.clause = Clause("exception", DynamicType(Top.cond))
    /\ via[Top.uid] # 0
    /\ ran = <<via[Top.uid], Top.uid>>
    /\ Top.catch_object = HolderAddress(m_exception(Top.cond))
    /\ Destroyed_count(Top.cond) = 0

(* A clause that was invoked for an exception ends without rethrowing: a   *)
(* plain one returns, a throwing one has a result that is no rethrow.      *)
ClauseCompletes(frame) ==
    /\ frame.kind = "catches"
    /\ is_exception(frame.cond)
    /\ \/ frame.pc = "plain" /\ frame = Top
       \/ /\ frame.pc = "clause"
          /\ Len(stack) > 1
          /\ frame = Below
          /\ Top.kind = "returned"
          /\ Top.role = "clause"
          /\ Top.cond.m_error_domain # RethrowErrorDomain

(* C5. Exactly-once destruction when caught: no exception is ever          *)
(* destroyed twice, and when the clause that was invoked for an exception  *)
(* ends without rethrowing, the exception has been destroyed, once.        *)
C5_ExactlyOnceDestruction ==
    [][/\ \A p \in 1..Len(heap') : heap'[p].destroyed <= 1
       /\ \A k \in 1..Len(stack) :
              ClauseCompletes(stack[k]) =>
                  /\ Len(heap') = Len(heap)
                  /\ heap'[m_exception(stack[k].cond)].destroyed = 1
                  /\ \A p \in 1..Len(heap) :
                         p # m_exception(stack[k].cond)
                             => heap'[p] = heap[p]]_vars

(* An exception that was propagated to an inner dispatch, rethrown by its  *)
(* clause and propagated on was caught by a plain clause of an enclosing   *)
(* dispatch, which has returned: the exception is destroyed, once.         *)
C5_Witness ==
    /\ Len(stack) > 0
    /\ Top.kind = "returned"
    /\ Top.pc = "caught"
    /\ via[Top.uid] # 0
    /\ ran = <<via[Top.uid], Top.uid>>
    /\ Len(heap) = 1
    /\ heap[1].destroyed = 1

(* C6. Dropped outcome is still destroyed: when the holder of a throwing   *)
(* that holds an exception goes away, the exception has been destroyed,    *)
(* once.                                                                   *)
C6_DroppedIsDestroyed ==
    (final.dropped /\ is_exception(final.cond))
        => Destroyed_count(final.cond) = 1

(* C7. Resource teardown ordering: while a dispatch tests or runs its      *)
(* clauses, no frame the failure came through has a local left; and a      *)
(* frame that failed by awaiting starts releasing its locals only when the *)
(* frame it awaited has released all of its own.                           *)
C7_TeardownOrdering ==
    /\ \A k \in 1..Len(stack) :
           stack[k].kind = "catches" =>
               \A x \in live : x[1] \notin Chain(stack[k].uid)
    /\ \A u \in 1..MaxFrames :
           via[u] # 0 =>
               /\ \A x \in live : x[1] \notin Chain(via[u])
               /\ \A a, b \in 1..Len(relLog) :
                      (relLog[a][1] = via[u] /\ relLog[b][1] = u) => a < b

(* A plain clause runs for a failure that came through two frames with     *)
(* locals: the inner frame released its locals first, then the outer.      *)
C7_Witness ==
    /\ Len(stack) > 0
    /\ Top.kind = "catches"
    /\ Top.pc = "plain"
    /\ via[Top.uid] # 0
    /\ live = {}
    /\ \E a, b \in 1..Len(relLog) :
           /\ a < b
           /\ relLog[a][1] = via[Top.uid]
           /\ relLog[b][1] = Top.uid

(* C8. Unmatched propagation: when the last clause of a list is reached    *)
(* and does not apply either, the dispatch returns the condition it was    *)
(* given, same domain and same exception or code; it has run no clause     *)
(* and nothing is destroyed.                                               *)
C8_UnmatchedPropagation ==
    [][(/\ Matching
        /\ Top.i = Top.n
        /\ ~Applies(Top.clause, Top.cond))
           => /\ Len(stack') = Len(stack)
              /\ stack'[Len(stack)].kind = "returned"
              /\ stack'[Len(stack)].cond = Top.cond
              /\ Count(ran, Top.uid) = 0
              /\ ran' = ran
              /\ heap' = heap
              /\ Top.cond.m_error_domain = ThrowingExceptionDomain
                     => Destroyed_count(Top.cond) = 0]_vars

(* A dispatch whose last clause is for errc has returned an error of the   *)
(* user domain, of a code errc has too, to a body that awaits it.          *)
C8_Witness ==
    /\ Len(stack) > 1
    /\ Top.kind = "returned"
    /\ Top.pc = "uncaught"
    /\ Top.passed = Clause("value", "errc")
    /\ Top.cond.m_error_domain = UserDomain
    /\ m_error_code(Top.cond) = 22
    /\ Count(ran, Top.uid) = 0
    /\ Below.kind = "body"
    /\ Below.pc = "await"

(* A body awaits a throwing that holds a failure. *)
AwaitsFailure ==
    /\ Len(stack) > 1
    /\ Top.kind = "returned"
    /\ Top.role = "call"
    /\ Below.kind = "body"
    /\ Below.pc = "await"
    /\ Top.cond.m_error_domain # NullDomain

(* C9. Verbatim propagation: a body that awaits a failure gets the very    *)
(* condition as its own, the same domain and the same exception object or  *)
(* code, does not resume, and the transfer destroys nothing.               *)
C9_VerbatimPropagation ==
    [][AwaitsFailure =>
           /\ Len(stack') = Len(stack) - 1
           /\ stack'[Len(stack')].uid = Below.uid
           /\ stack'[Len(stack')].pc = "destroy"
           /\ stack'[Len(stack')].cond = Top.cond
           /\ heap' = heap]_vars

(* An exception has come through two awaiting bodies and is alive. *)
C9_Witness ==
    /\ Len(stack) > 0
    /\ Top.kind = "body"
    /\ Top.pc = "destroy"
    /\ via[Top.uid] # 0
    /\ via[via[Top.uid]] # 0
    /\ ran = <<>>
    /\ is_exception(Top.cond)
    /\ DynamicType(Top.cond) = "user_error"
    /\ Destroyed_count(Top.cond) = 0

(* C10. Value passes through dispatch: catches on a throwing that holds a  *)
(* value returns that value and runs no clause, whatever the clauses.      *)
C10_ValuePassesThrough ==
    [][(/\ Len(stack) > 0
        /\ Top.kind = "returned"
        /\ Top.role = "try"
        /\ Top.cond.m_error_domain = NullDomain)
           => /\ Len(stack') = Len(stack)
              /\ stack'[Len(stack)].kind = "returned"
              /\ stack'[Len(stack)].cond.m_error_domain = NullDomain
              /\ stack'[Len(stack)].cond.m_union = Top.cond.m_union
              /\ ran' = ran
              /\ heap' = heap]_vars

(* catches has returned the value 2 of its try clause. *)
C10_Witness ==
    /\ Len(stack) > 0
    /\ Top.kind = "returned"
    /\ Top.pc = "value"
    /\ is_value(Top.cond)
    /\ m_return_value(Top.cond) = 2
    /\ ran = <<>>

(* A throwing clause has ended with a failure of its own that is no        *)
(* rethrow.                                                                *)
ClauseFails ==
    /\ Len(stack) > 1
    /\ Top.kind = "returned"
    /\ Top.role = "clause"
    /\ Below.kind = "catches"
    /\ Below.pc = "clause"
    /\ Top.cond.m_error_domain \notin {NullDomain, RethrowErrorDomain}

(* C11. A failing clause replaces the original failure: when a clause ends *)
(* with an exception or an error of its own, the dispatch returns that     *)
(* failure; an exception the dispatch was given is alive until then and is *)
(* destroyed, once, in that step, and nothing else is destroyed.           *)
C11_FailingClauseReplaces ==
    [][ClauseFails =>
           /\ Len(stack') = Len(stack) - 1
           /\ stack'[Len(stack')].kind = "returned"
           /\ stack'[Len(stack')].cond = Top.cond
           /\ Len(heap') = Len(heap)
           /\ \A p \in 1..Len(heap) :
                  IF /\ Below.cond.m_error_domain = ThrowingExceptionDomain
                     /\ p = Below.cond.m_union.v
                  THEN heap[p].destroyed = 0 /\ heap'[p].destroyed = 1
                  ELSE heap'[p] = heap[p]]_vars

(* A clause invoked for the first exception failed with a second one: the  *)
(* dispatch returned the second, alive, and the first is destroyed.        *)
C11_Witness ==
    /\ Len(stack) > 0
    /\ Top.kind = "returned"
    /\ Top.pc = "caught"
    /\ is_exception(Top.cond)
    /\ m_exception(Top.cond) = 2
    /\ Len(ran) = 1
    /\ heap[1].destroyed = 1
    /\ heap[2].destroyed = 0

(* A clause ends with a value: a plain one returns, a throwing one has a   *)
(* result that holds a value.                                              *)
ClauseRecovers ==
    /\ Len(stack) > 0
    /\ \/ Top.kind = "catches" /\ Top.pc = "plain"
       \/ /\ Len(stack) > 1
          /\ Top.kind = "returned"
          /\ Top.role = "clause"
          /\ Below.kind = "catches"
          /\ Below.pc = "clause"
          /\ Top.cond.m_error_domain = NullDomain

(* A body awaits a throwing that holds a value. *)
AwaitsValue ==
    /\ Len(stack) > 1
    /\ Top.kind = "returned"
    /\ Top.role = "call"
    /\ Below.kind = "body"
    /\ Below.pc = "await"
    /\ Top.cond.m_error_domain = NullDomain

(* C12. Locally recovered failures stop propagating: when the clause that  *)
(* was invoked ends with a value, the dispatch returns a value; a body     *)
(* that awaits a value resumes with its own condition untouched and takes  *)
(* no failure over, and no dispatch tests a clause for an exception that   *)
(* was destroyed.                                                          *)
C12_RecoveredStopsPropagating ==
    [][/\ ClauseRecovers =>
            /\ stack'[Len(stack')].kind = "returned"
            /\ stack'[Len(stack')].role = "call"
            /\ stack'[Len(stack')].cond.m_error_domain = NullDomain
            /\ ran' = ran
       /\ AwaitsValue =>
            /\ Len(stack') = Len(stack) - 1
            /\ stack'[Len(stack')] = [Below EXCEPT !.pc = "resumed"]
            /\ via' = via
       /\ (/\ Matching
           /\ Top.cond.m_error_domain = ThrowingExceptionDomain)
              => Destroyed_count(Top.cond) = 0]_vars

(* The try clause of an enclosing dispatch has resumed after an inner      *)
(* dispatch whose clause caught the exception.                             *)
C12_Witness ==
    /\ Len(stack) = 1
    /\ Top.kind = "body"
    /\ Top.role = "try"
    /\ Top.pc = "resumed"
    /\ via[Top.uid] = 0
    /\ Len(ran) = 1
    /\ ran[1] # Top.uid
    /\ Len(heap) = 1
    /\ heap[1].destroyed = 1

(* A running body exits and leaves the union of its condition untouched:   *)
(* co_yield zpp::rethrow.                                                  *)
SignalsRethrow ==
    /\ Running
    /\ heap' = heap
    /\ Len(stack') = Len(stack)
    /\ stack'[Len(stack)].pc = "destroy"
    /\ stack'[Len(stack)].cond.m_union = Top.cond.m_union

(* C13. Rethrow with nothing in flight: a body that signals rethrow exits  *)
(* with a failure, of the rethrow_error domain; a dispatch invokes a       *)
(* clause for the rethrow_error value for it, so no clause after that one  *)
(* runs.                                                                   *)
C13_RethrowWithNothingInFlight ==
    [][/\ SignalsRethrow =>
            /\ stack'[Len(stack)].cond.m_error_domain # NullDomain
            /\ stack'[Len(stack)].cond.m_error_domain = RethrowErrorDomain
       /\ (/\ Matching
           /\ Top.cond.m_error_domain = RethrowErrorDomain
           /\ Top.clause = Clause("value", "rethrow_error"))
              => InvokesClause /\ Count(ran, Top.uid) = 0]_vars

(* The clause for rethrow_error runs for the rethrow of a try clause that  *)
(* awaited nothing; the catch all clause after it has not run.             *)
C13_Witness ==
    /\ Len(stack) > 0
    /\ Top.kind = "catches"
    /\ Top.pc = "plain"
    /\ Top.clause = Clause("value", "rethrow_error")
    /\ is_rethrow(Top.cond)
    /\ via[Top.uid] = 0
    /\ ~Top.thr
    /\ Top.i < Top.n
    /\ ran = <<Top.uid>>

(* The domain registered for each value type a clause can be declared for. *)
RegisteredDomain(value_type) ==
    CASE value_type = "errc" -> ErrcDomain
      [] value_type = "user_errc" -> UserDomain
      [] value_type = "rethrow_error" -> RethrowErrorDomain

(* C14. Domain matching is by identity: for a failure that is no exception *)
(* a clause for a value type is invoked when the domain of the failure is  *)
(* the domain registered for the type, and passed over when it is not,     *)
(* whatever the code.                                                      *)
C14_DomainIdentity ==
    [][(/\ Matching
        /\ Top.clause.kind = "value"
        /\ Top.cond.m_error_domain # ThrowingExceptionDomain)
           => IF Top.cond.m_error_domain = RegisteredDomain(Top.clause.target)
              THEN InvokesClause
              ELSE PassesClause]_vars

(* A clause for user_errc, the last of its list, was passed over for the   *)
(* errc error of code 22, a code user_errc has too.                        *)
C14_Witness ==
    /\ Len(stack) > 0
    /\ Top.kind = "returned"
    /\ Top.pc = "uncaught"
    /\ Top.passed = Clause("value", "user_errc")
    /\ Top.cond.m_error_domain = ErrcDomain
    /\ m_error_code(Top.cond) = 22
    /\ Error(UserDomain, 22) \in ThrownErrors
    /\ ran = <<>>

(* The condition holds an error of a domain: no value, no exception, no    *)
(* rethrow signal.                                                         *)
DomainErrorState(cond) ==
    cond.m_error_domain \notin
        {NullDomain, ThrowingExceptionDomain, RethrowErrorDomain}

(* C15. Generic error clause applicability: a clause for zpp::error is     *)
(* invoked when the failure is an error of a domain, whatever the domain,  *)
(* and passed over when it is an exception or the rethrow signal.          *)
C15_GenericErrorApplicability ==
    [][(/\ Matching
        /\ Top.clause.kind = "error")
           => IF DomainErrorState(Top.cond)
              THEN InvokesClause
              ELSE PassesClause]_vars

(* What the code does: the clause for zpp::error is invoked for every      *)
(* failure that is no exception, the rethrow signal included.              *)
C15_GenericErrorAsCoded ==
    [][(/\ Matching
        /\ Top.clause.kind = "error")
           => IF Top.cond.m_error_domain # ThrowingExceptionDomain
              THEN InvokesClause
              ELSE PassesClause]_vars

(* C16. Failure kinds do not cross-match: a clause for an exception type   *)
(* is passed over for a failure that is no exception, and a clause for a   *)
(* value type or for zpp::error is passed over for an exception.           *)
C16_NoCrossMatch ==
    [][(/\ Matching
        /\ \/ /\ Top.clause.kind = "exception"
              /\ Top.cond.m_error_domain # ThrowingExceptionDomain
           \/ /\ Top.clause.kind \in {"value", "error"}
              /\ Top.cond.m_error_domain = ThrowingExceptionDomain)
           => PassesClause]_vars

(* A clause for zpp::error, the last of its list, was passed over for an   *)
(* exception, which was returned alive.                                    *)
C16_Witness ==
    /\ Len(stack) > 0
    /\ Top.kind = "returned"
    /\ Top.pc = "uncaught"
    /\ Top.passed = Clause("error", "error")
    /\ is_exception(Top.cond)
    /\ Destroyed_count(Top.cond) = 0
    /\ ran = <<>>

(* C17. Catch all always matches: a catch all clause that is reached is    *)
(* invoked, whatever the failure; no dispatch returns its failure as       *)
(* unmatched past a catch all clause.                                      *)
C17_CatchAllAlwaysMatches ==
    [][/\ (Matching /\ Top.clause = CatchAll)
              => InvokesClause /\ Count(ran, Top.uid) = 0
       /\ (/\ Matching
           /\ stack'[Len(stack)].kind = "returned"
           /\ stack'[Len(stack)].pc = "uncaught")
              => stack'[Len(stack)].passed # CatchAll]_vars

(* The catch all clause at the end of a list of three runs for the rethrow *)
(* signal.                                                                 *)
C17_Witness ==
    /\ Len(stack) > 0
    /\ Top.kind = "catches"
    /\ Top.pc = "plain"
    /\ Top.clause = CatchAll
    /\ Top.i = 3
    /\ Top.cond.m_error_domain = RethrowErrorDomain
    /\ ran = <<Top.uid>>

(* The body of the clause of this dispatch has started and not ended. *)
BodyRuns(frame) ==
    frame.kind = "catches" /\ frame.pc \in {"plain", "clause"}

(* The clause of the dispatch below the top has ended; its result is the   *)
(* rethrow signal, or is not.                                              *)
ThrowingClauseEnds(rethrow) ==
    /\ Len(stack) > 1
    /\ Top.kind = "returned"
    /\ Top.role = "clause"
    /\ Below.kind = "catches"
    /\ Below.pc = "clause"
    /\ (Top.cond.m_error_domain = RethrowErrorDomain) = rethrow

(* C18. Payload lifetime around a typed clause: while the body of a clause *)
(* for an exception type runs the exception is alive; the step in which    *)
(* the body ends, which is the step that returns the result to the caller, *)
(* destroys it, unless the result is the rethrow signal, and then it stays *)
(* alive.                                                                  *)
C18_TypedClauseLifetime ==
    [][/\ \A k \in 1..Len(stack) :
              (BodyRuns(stack[k]) /\ stack[k].clause.kind = "exception")
                  => Destroyed_count(stack[k].cond) = 0
       /\ (/\ Len(stack) > 0
           /\ Top.kind = "catches"
           /\ Top.pc = "plain"
           /\ Top.clause.kind = "exception")
              => /\ stack'[Len(stack)].kind = "returned"
                 /\ heap'[Top.cond.m_union.v].destroyed = 1
       /\ (ThrowingClauseEnds(FALSE) /\ Below.clause.kind = "exception")
              => /\ stack'[Len(stack')].kind = "returned"
                 /\ heap'[Below.cond.m_union.v].destroyed = 1
       /\ (ThrowingClauseEnds(TRUE) /\ Below.clause.kind = "exception")
              => /\ stack'[Len(stack')].kind = "returned"
                 /\ heap'[Below.cond.m_union.v].destroyed = 0]_vars

(* The body of a coroutine clause for runtime_error runs, as a frame of    *)
(* its own, for a range_error that is alive.                               *)
C18_Witness ==
    /\ Len(stack) > 1
    /\ Below.kind = "catches"
    /\ Below.pc = "clause"
    /\ Below.clause = Clause("exception", "runtime_error")
    /\ DynamicType(Below.cond) = "range_error"
    /\ Destroyed_count(Below.cond) = 0
    /\ Top.kind = "body"
    /\ Top.role = "clause"
    /\ Top.pc = "run"

(* C19. Payload lifetime around a plain catch all: while the body of a     *)
(* plain catch all clause runs for an exception, the exception is already  *)
(* destroyed, once, and no frame the exception came through has a local    *)
(* left.                                                                   *)
C19_PlainCatchAllLifetime ==
    \A k \in 1..Len(stack) :
        (/\ stack[k].kind = "catches"
         /\ stack[k].pc = "plain"
         /\ stack[k].clause = CatchAll
         /\ stack[k].cond.m_error_domain = ThrowingExceptionDomain)
            => /\ Destroyed_count(stack[k].cond) = 1
               /\ \A x \in live : x[1] \notin Chain(stack[k].uid)

(* A plain catch all clause of the throwing overload runs for an exception *)
(* that came through an awaiting frame.                                    *)
C19_Witness ==
    /\ Len(stack) > 0
    /\ Top.kind = "catches"
    /\ Top.pc = "plain"
    /\ Top.thr
    /\ Top.clause = CatchAll
    /\ is_exception(Top.cond)
    /\ via[Top.uid] # 0
    /\ Len(relLog) >= 2
    /\ Destroyed_count(Top.cond) = 1

(* C20. Payload lifetime around a throwing catch all: while the body of a  *)
(* catch all clause that is a coroutine runs for an exception, the         *)
(* exception is alive; when the body ends with a result that is no rethrow *)
(* the exception is destroyed, once, in that step; when it ends with the   *)
(* rethrow signal the dispatch returns the condition it was given and the  *)
(* exception stays alive.                                                  *)
C20_ThrowingCatchAllLifetime ==
    [][/\ \A k \in 1..Len(stack) :
              (/\ stack[k].kind = "catches"
               /\ stack[k].pc = "clause"
               /\ stack[k].clause = CatchAll
               /\ stack[k].cond.m_error_domain = ThrowingExceptionDomain)
                  => Destroyed_count(stack[k].cond) = 0
       /\ (/\ ThrowingClauseEnds(FALSE)
           /\ Below.clause = CatchAll
           /\ Below.cond.m_error_domain = ThrowingExceptionDomain)
              => /\ stack'[Len(stack')].cond = Top.cond
                 /\ heap'[Below.cond.m_union.v].destroyed = 1
       /\ (/\ ThrowingClauseEnds(TRUE)
           /\ Below.clause = CatchAll
           /\ Below.cond.m_error_domain = ThrowingExceptionDomain)
              => /\ stack'[Len(stack')].cond = Below.cond
                 /\ heap' = heap]_vars

(* A catch all clause that is a coroutine caught an exception and returned *)
(* a value: the dispatch returned it and the exception is destroyed.       *)
C20_Witness ==
    /\ Len(stack) > 0
    /\ Top.kind = "returned"
    /\ Top.pc = "caught"
    /\ Top.clause = CatchAll
    /\ is_value(Top.cond)
    /\ Count(ran, Top.uid) = 0
    /\ Len(ran) = 1
    /\ Len(heap) = 1
    /\ heap[1].destroyed = 1

(* C21. Dispatch result is the matched clause's result: when the try       *)
(* clause returned a value the dispatch returns that value and no clause   *)
(* runs; when the clause that was invoked ends with a value the dispatch   *)
(* returns exactly that value; what is returned records whether the try    *)
(* clause or a clause produced it, and which clause.                       *)
C21_DispatchResult ==
    [][/\ (/\ Len(stack) > 0
           /\ Top.kind = "returned"
           /\ Top.role = "try"
           /\ Top.cond.m_error_domain = NullDomain)
              => /\ stack'[Len(stack)].kind = "returned"
                 /\ stack'[Len(stack)].pc = "value"
                 /\ stack'[Len(stack)].clause = NoClause
                 /\ stack'[Len(stack)].cond.m_error_domain = NullDomain
                 /\ stack'[Len(stack)].cond.m_union = Top.cond.m_union
                 /\ ran' = ran
       /\ (/\ ThrowingClauseEnds(FALSE)
           /\ Top.cond.m_error_domain = NullDomain)
              => /\ stack'[Len(stack')].kind = "returned"
                 /\ stack'[Len(stack')].pc = "caught"
                 /\ stack'[Len(stack')].clause = Below.clause
                 /\ stack'[Len(stack')].cond = Top.cond
       /\ (/\ Len(stack) > 0
           /\ Top.kind = "catches"
           /\ Top.pc = "plain")
              => /\ stack'[Len(stack)].kind = "returned"
                 /\ stack'[Len(stack)].pc = "caught"
                 /\ stack'[Len(stack)].clause = Top.clause
                 /\ stack'[Len(stack)].cond.m_error_domain = NullDomain
                 /\ stack'[Len(stack)].cond.m_union.tag = "value"
                 /\ stack'[Len(stack)].cond.m_union.v \in Values]_vars

(* A clause for zpp::error that is a coroutine ended with the value 2, and *)
(* the dispatch returned the value 2 as the result of that clause.         *)
C21_Witness ==
    /\ Len(stack) > 0
    /\ Top.kind = "returned"
    /\ Top.pc = "caught"
    /\ Top.clause = Clause("error", "error")
    /\ Top.cond.m_error_domain = NullDomain
    /\ Top.cond.m_union = Member("value", 2)
    /\ Count(ran, Top.uid) = 0
    /\ Len(ran) = 1

(* C22. No execution after the failure point: a body that raises a failure *)
(* or awaits a failed computation goes to the destruction of its frame in  *)
(* that step; from then on it keeps its condition, calls and awaits        *)
(* nothing, starts no clause and only loses its locals until it has        *)
(* returned, and what has returned is never a running body again.          *)
C22_NoExecutionAfterFailure ==
    [][/\ (/\ Running
           /\ Len(stack') = Len(stack)
           /\ stack'[Len(stack)].cond.m_error_domain # NullDomain)
              => /\ stack'[Len(stack)].kind = "body"
                 /\ stack'[Len(stack)].uid = Top.uid
                 /\ stack'[Len(stack)].pc = "destroy"
       /\ AwaitsFailure
              => /\ Len(stack') = Len(stack) - 1
                 /\ stack'[Len(stack')].kind = "body"
                 /\ stack'[Len(stack')].uid = Below.uid
                 /\ stack'[Len(stack')].pc = "destroy"
       /\ \A k \in 1..Len(stack) :
              /\ (/\ stack[k].kind = "body"
                  /\ stack[k].pc = "destroy"
                  /\ stack[k].cond.m_error_domain # NullDomain)
                     => /\ k = Len(stack)
                        /\ Len(stack') = Len(stack)
                        /\ stack'[k].uid = stack[k].uid
                        /\ stack'[k].cond = stack[k].cond
                        /\ stack'[k].res <= stack[k].res
                        /\ \/ /\ stack'[k].kind = "body"
                              /\ stack'[k].pc = "destroy"
                           \/ /\ stack'[k].kind = "returned"
                              /\ stack'[k].pc = "coroutine"
                        /\ nextUid' = nextUid
                        /\ ran' = ran
              /\ (/\ stack[k].kind = "returned"
                  /\ k <= Len(stack'))
                     => ~(/\ stack'[k].kind = "body"
                          /\ stack'[k].uid = stack[k].uid)]_vars

(* A body awaited a failed computation and is gone: its local was released *)
(* and it returned the failure without having resumed.                     *)
C22_Witness ==
    /\ Len(stack) > 0
    /\ Top.kind = "returned"
    /\ Top.pc = "coroutine"
    /\ Top.cond.m_error_domain # NullDomain
    /\ via[Top.uid] # 0
    /\ \E k \in 1..Len(relLog) : relLog[k][1] = Top.uid
    /\ Count(ran, Top.uid) = 0

(* C23. Error payload fidelity: a body that raises an error of a domain    *)
(* holds that domain and that code; a body that awaits it takes both over  *)
(* unchanged, through any number of frames; the clause for zpp::error that *)
(* is invoked for it is called with that domain and that code, and the     *)
(* clause for the value type of its domain with a value of that code.      *)
C23_ErrorPayloadFidelity ==
    [][/\ (/\ Running
           /\ Len(stack') = Len(stack)
           /\ DomainErrorState(stack'[Len(stack)].cond))
              => /\ stack'[Len(stack)].cond.m_union.tag = "code"
                 /\ Error(stack'[Len(stack)].cond.m_error_domain,
                          stack'[Len(stack)].cond.m_union.v)
                        \in ThrownErrors
       /\ (AwaitsFailure /\ DomainErrorState(Top.cond))
              => /\ stack'[Len(stack')].cond.m_error_domain
                        = Top.cond.m_error_domain
                 /\ stack'[Len(stack')].cond.m_union = Top.cond.m_union
       /\ (/\ Matching
           /\ DomainErrorState(Top.cond)
           /\ Top.clause.kind = "error")
              => /\ InvokesClause
                 /\ stack'[Len(stack)].argument.type = "error"
                 /\ stack'[Len(stack)].argument.m_domain
                        = Top.cond.m_error_domain
                 /\ stack'[Len(stack)].argument.m_code
                        = Top.cond.m_union.v
       /\ (/\ Matching
           /\ DomainErrorState(Top.cond)
           /\ Top.clause.kind = "value"
           /\ Top.cond.m_error_domain
                  = RegisteredDomain(Top.clause.target))
              => /\ InvokesClause
                 /\ stack'[Len(stack)].argument.type = Top.clause.target
                 /\ stack'[Len(stack)].argument.m_code
                        = Top.cond.m_union.v]_vars

(* The clause for user_errc runs with the code 22 for an error that came   *)
(* to the try clause through two awaiting frames.                          *)
C23_Witness ==
    /\ Len(stack) > 0
    /\ Top.kind = "catches"
    /\ Top.pc = "plain"
    /\ Top.clause = Clause("value", "user_errc")
    /\ Top.cond.m_error_domain = UserDomain
    /\ Top.argument.type = "user_errc"
    /\ Top.argument.m_code = 22
    /\ via[Top.uid] # 0
    /\ via[via[Top.uid]] # 0

(* The conditions that hold the exception at `pointer`, by the frame that  *)
(* has the condition.                                                      *)
Holders(pointer) ==
    {k \in 1..Len(stack) :
        /\ stack[k].cond.m_error_domain = ThrowingExceptionDomain
        /\ stack[k].cond.m_union.v = pointer}

(* C24. Single ownership of the exception handle: every exception that has *)
(* not been destroyed is held by exactly one condition in the exception    *)
(* state.                                                                  *)
C24_SingleOwnership ==
    \A pointer \in 1..Len(heap) :
        heap[pointer].destroyed = 0
            => Cardinality(Holders(pointer)) = 1

(* No two conditions hold the same exception between two steps. *)
C24_AtMostOneHolder ==
    \A pointer \in 1..Len(heap) : Cardinality(Holders(pointer)) <= 1

(* C25. Non matching clauses leave the outcome untouched: when the clause  *)
(* a dispatch looks at is not for the failure, the step hands the very     *)
(* condition on, to the test of the next clause or to the caller when the  *)
(* clause was the last: the same state, the same exception or the same     *)
(* domain and code; the dynamic object under test is the same, nothing is  *)
(* destroyed and no clause body starts.                                    *)
C25_NonMatchingUntouched ==
    [][(Matching /\ ~Applies(Top.clause, Top.cond))
           => /\ Len(stack') = Len(stack)
              /\ stack'[Len(stack)].uid = Top.uid
              /\ stack'[Len(stack)].cond = Top.cond
              /\ heap' = heap
              /\ ran' = ran
              /\ IF Top.i < Top.n
                 THEN /\ stack'[Len(stack)].kind = "catches"
                      /\ stack'[Len(stack)].pc = "match"
                      /\ stack'[Len(stack)].dyn = Top.dyn
                 ELSE /\ stack'[Len(stack)].kind = "returned"
                      /\ stack'[Len(stack)].pc = "uncaught"
                      /\ stack'[Len(stack)].passed = Top.clause]_vars

(* Two clauses were passed over for an exception that came through an      *)
(* awaiting frame: the third is under test for the same exception, alive,  *)
(* at the same address.                                                    *)
C25_Witness ==
    /\ Matching
    /\ Top.i = 3
    /\ Top.cond.m_error_domain = ThrowingExceptionDomain
    /\ Top.cond.m_union = Member("exception", 1)
    /\ heap[1].destroyed = 0
    /\ Top.dyn = dynamic_object(heap, 1)
    /\ via[Top.uid] # 0
    /\ ran = <<>>

(* The paths from a type to a target through the declared bases, each the  *)
(* sequence of the positions of the bases taken; the empty path when the   *)
(* type is the target.                                                     *)
RECURSIVE PathsTo(_, _)
PathsTo(type, target) ==
    IF type = target
    THEN {<<>>}
    ELSE UNION {{<<k>> \o path :
                    path \in PathsTo(define_exception(type)[k], target)} :
                k \in 1..Len(define_exception(type))}

(* A path is left of another, or is the other: at the first position where *)
(* they differ it takes the base declared earlier.                         *)
RECURSIVE Precedes(_, _)
Precedes(p, q) ==
    IF p = <<>> \/ q = <<>>
    THEN TRUE
    ELSE \/ Head(p) < Head(q)
         \/ Head(p) = Head(q) /\ Precedes(Tail(p), Tail(q))

Leftmost(paths) ==
    CHOOSE p \in paths : \A q \in paths : Precedes(p, q)

(* The address of the subobject at the end of a path: the conversions to   *)
(* the bases along the path, one after the other.                          *)
RECURSIVE AddressAlong(_, _, _)
AddressAlong(type, address, path) ==
    IF path = <<>>
    THEN address
    ELSE AddressAlong(define_exception(type)[Head(path)],
                      erased_static_cast(Head(path), address),
                      Tail(path))

(* C26. Hierarchy search order: the search from the dynamic type of an     *)
(* exception for the type of a clause finds nothing exactly when the type  *)
(* is not reachable through the declared bases; else the clause is called  *)
(* with the address at the end of the leftmost path, the conversions along *)
(* the path composed, which is the address of the object itself when the   *)
(* dynamic type is the type of the clause.                                 *)
C26_HierarchySearchOrder ==
    [][(/\ Matching
        /\ Top.clause.kind = "exception"
        /\ Top.cond.m_error_domain = ThrowingExceptionDomain)
           => LET paths == PathsTo(Top.dyn.type_id, Top.clause.target)
              IN  /\ (paths = {})
                         <=> Top.clause.target
                                \notin Ancestors(Top.dyn.type_id)
                  /\ IF paths = {}
                     THEN PassesClause
                     ELSE /\ InvokesClause
                          /\ stack'[Len(stack)].catch_object =
                                 AddressAlong(Top.dyn.type_id,
                                              Top.dyn.address,
                                              Leftmost(paths))
                          /\ Top.dyn.type_id = Top.clause.target
                                 => stack'[Len(stack)].catch_object
                                        = Top.dyn.address]_vars

(* A clause for the root of the hierarchy runs for a diamond_error, which  *)
(* reaches it on two paths, with the address along the first bases.        *)
C26_Witness ==
    /\ Len(stack) > 0
    /\ Top.kind = "catches"
    /\ Top.pc = "plain"
    /\ Top.clause = Clause("exception", "exception")
    /\ Top.dyn.type_id = "diamond_error"
    /\ Cardinality(PathsTo("diamond_error", "exception")) = 2
    /\ Top.catch_object = Top.dyn.address
    /\ AddressAlong("diamond_error", Top.dyn.address, <<2, 1, 1>>)
           # Top.dyn.address

(* The registered types that declare the direct bases of a type in another *)
(* order.                                                                  *)
Permuted(type) ==
    {other \in Types :
        /\ define_exception(other) # define_exception(type)
        /\ Len(define_exception(other)) = Len(define_exception(type))
        /\ DirectBases(other) = DirectBases(type)}

(* C30. Clause selection does not depend on base declaration order: a      *)
(* clause for an exception type is invoked for an exception exactly when   *)
(* it would be invoked for an exception, at the same address, of a type    *)
(* that declares the same bases in another order; the clauses for the two  *)
(* types themselves aside, the same clause of a list runs for both.        *)
C30_BaseOrderIndependence ==
    [][(/\ Matching
        /\ Top.clause.kind = "exception"
        /\ Top.cond.m_error_domain = ThrowingExceptionDomain)
           => \A other \in Permuted(Top.dyn.type_id) :
                  Top.clause.target \notin {Top.dyn.type_id, other}
                      => /\ InvokesClause
                                <=> Invoked(Top.clause, Top.cond,
                                            [Top.dyn EXCEPT
                                                !.type_id = other])
                         /\ PassesClause
                                <=> ~Invoked(Top.clause, Top.cond,
                                             [Top.dyn EXCEPT
                                                 !.type_id = other])]_vars

(* A clause for range_error runs for a reordered_error with the address of *)
(* its second base; for a diamond_error, which declares the same bases in  *)
(* the other order, the same clause would run with the address of the      *)
(* first.                                                                  *)
C30_Witness ==
    /\ Len(stack) > 0
    /\ Top.kind = "catches"
    /\ Top.pc = "plain"
    /\ Top.clause = Clause("exception", "range_error")
    /\ Top.dyn.type_id = "reordered_error"
    /\ "diamond_error" \in Permuted("reordered_error")
    /\ Top.catch_object = Top.dyn.address + 1
    /\ dyn_cast("range_error", Top.dyn.address, "diamond_error")
           = Top.dyn.address

(* The states the predicates of a condition report as active. *)
ActiveStates(c) ==
    {state \in {"Value", "Exception", "DomainError", "Rethrow"} :
        CASE state = "Value" -> is_value(c)
          [] state = "Exception" -> is_exception(c)
          [] state = "DomainError" -> is_error(c)
          [] state = "Rethrow" -> is_rethrow(c)}

(* C27. Exactly one state is active: the predicates of every condition     *)
(* report exactly one of the states Value, Exception, DomainError and      *)
(* Rethrow; success holds exactly in the Value state and failure exactly   *)
(* in the other three.                                                     *)
C27_ExactlyOneState ==
    \A k \in 1..Len(stack) :
        /\ Cardinality(ActiveStates(stack[k].cond)) = 1
        /\ success(stack[k].cond)
               <=> ActiveStates(stack[k].cond) = {"Value"}
        /\ failure(stack[k].cond)
               <=> "Value" \notin ActiveStates(stack[k].cond)

(* What the predicates do report: exactly one of is_value, is_exception    *)
(* and is_error; is_rethrow only together with is_error; success with      *)
(* is_value and failure without it.                                        *)
C27_StatesAsCoded ==
    \A k \in 1..Len(stack) :
        /\ Cardinality(ActiveStates(stack[k].cond) \ {"Rethrow"}) = 1
        /\ is_rethrow(stack[k].cond) => is_error(stack[k].cond)
        /\ success(stack[k].cond) <=> is_value(stack[k].cond)
        /\ failure(stack[k].cond) <=> ~is_value(stack[k].cond)

(* A running body exits with an error: exit_with_error has written a code, *)
(* which the rethrow signal does not.                                      *)
RaisesError ==
    /\ Running
    /\ Len(stack') = Len(stack)
    /\ stack'[Len(stack)].pc = "destroy"
    /\ stack'[Len(stack)].cond.m_union.tag = "code"
    /\ stack'[Len(stack)].cond.m_union # Top.cond.m_union

(* C28. State depends on the construction path only: a body that raises an *)
(* error of a domain is in the state of a domain error, whatever the       *)
(* domain; a body is in the exception state only with the exception it     *)
(* has just made, and in the rethrow state only when it signalled rethrow; *)
(* when a clause ends with an error it raised, the dispatch returns that   *)
(* error and not the original failure.                                     *)
C28_ConstructionPath ==
    [][/\ RaisesError
              => /\ DomainErrorState(stack'[Len(stack)].cond)
                 /\ ~is_rethrow(stack'[Len(stack)].cond)
                 /\ ~is_exception(stack'[Len(stack)].cond)
       /\ (/\ Running
           /\ Len(stack') = Len(stack)
           /\ is_exception(stack'[Len(stack)].cond))
              => /\ Len(heap') = Len(heap) + 1
                 /\ stack'[Len(stack)].cond.m_union
                        = Member("exception", Len(heap'))
       /\ (/\ Running
           /\ Len(stack') = Len(stack)
           /\ stack'[Len(stack)].pc = "destroy"
           /\ is_rethrow(stack'[Len(stack)].cond))
              => SignalsRethrow
       /\ (/\ Len(stack) > 1
           /\ Top.kind = "returned"
           /\ Top.role = "clause"
           /\ Below.kind = "catches"
           /\ Below.pc = "clause"
           /\ Top.cond.m_union.tag = "code"
           /\ Top.cond.m_union.v # 0)
              => /\ stack'[Len(stack')].kind = "returned"
                 /\ stack'[Len(stack')].cond = Top.cond]_vars

(* C29. Rethrow of a domain error: when a coroutine clause for a value     *)
(* type or for zpp::error that was invoked for an error of a domain ends   *)
(* with the rethrow signal, the dispatch returns the error it was given,   *)
(* the same domain and the same code, and destroys nothing; a dispatch     *)
(* that the error reaches after a clause of an inner dispatch ran invokes  *)
(* the clause for the value type of its domain, with its code.             *)
C29_RethrowOfDomainError ==
    [][/\ (/\ ThrowingClauseEnds(TRUE)
           /\ Below.clause.kind \in {"value", "error"}
           /\ DomainErrorState(Below.cond))
              => /\ Len(stack') = Len(stack) - 1
                 /\ stack'[Len(stack')].kind = "returned"
                 /\ stack'[Len(stack')].pc = "rethrown"
                 /\ stack'[Len(stack')].uid = Below.uid
                 /\ stack'[Len(stack')].cond.m_error_domain
                        = Below.cond.m_error_domain
                 /\ stack'[Len(stack')].cond.m_union = Below.cond.m_union
                 /\ heap' = heap
       /\ (/\ Matching
           /\ DomainErrorState(Top.cond)
           /\ Top.clause.kind = "value"
           /\ Top.cond.m_error_domain = RegisteredDomain(Top.clause.target)
           /\ \E u \in Chain(Top.uid) \ {Top.uid} : Count(ran, u) > 0)
              => /\ InvokesClause
                 /\ stack'[Len(stack)].argument.m_code
                        = Top.cond.m_union.v]_vars

(* A dispatch inside the try clause of an enclosing try_catch returned the *)
(* errc error of code 12 on the rethrow of its clause; the try clause is   *)
(* about to await it.                                                      *)
C29_Witness ==
    /\ Len(stack) > 1
    /\ Top.kind = "returned"
    /\ Top.pc = "rethrown"
    /\ Top.cond.m_error_domain = ErrcDomain
    /\ Top.cond.m_union = Member("code", 12)
    /\ Count(ran, Top.uid) = 1
    /\ Below.kind = "body"
    /\ Below.role = "try"
    /\ Below.pc = "await"

====
